---- MODULE Spec2Model ----
(***************************************************************************)
(* FireLater autonomous development agent (src/autonomous-dev.py).         *)
(*                                                                         *)
(* Text is modelled character by character: a Python str is a sequence of  *)
(* one-character strings, so that split, strip, slicing, replace and the   *)
(* substring test act as they do in the source.  The empty str is <<>>.    *)
(***************************************************************************)
EXTENDS Integers, Sequences, FiniteSets, TLC

(***************************************************************************)
(* Bounds of the model.                                                    *)
(***************************************************************************)
\* calls of mark_task_complete that skip the task last returned (walk of the starter
\* document)
MaxSkips == 2
\* operations applied to the task store that change the document
MaxStoreCalls == 3
\* minutes the clock advances
MaxClock == 1
\* iterations of main's loop
MaxIterations == 4
\* direct calls of save_file_changes before the parser runs
MaxSaves == 2

(***************************************************************************)
(* Python str built-ins used by the source.                                *)
(***************************************************************************)
Min(S) == CHOOSE x \in S : \A y \in S : x <= y

\* the characters str.strip() removes
Whitespace == {" ", "\n", "\t", "\r"}

\* s[i:i+len(p)] == p
MatchAt(s, i, p) ==
  /\ i + Len(p) - 1 <= Len(s)
  /\ \A k \in 1..Len(p) : s[i + k - 1] = p[k]

\* s.startswith(p)
StartsWith(s, p) == MatchAt(s, 1, p)

\* s.endswith(p)
EndsWith(s, p) == Len(p) <= Len(s) /\ MatchAt(s, Len(s) - Len(p) + 1, p)

\* p in s
Contains(s, p) == \E i \in 1..(Len(s) - Len(p) + 1) : MatchAt(s, i, p)

\* the start positions >= i of p in s
MatchesFrom(s, i, p) == {j \in i..(Len(s) - Len(p) + 1) : MatchAt(s, j, p)}

\* the first and the last position of s whose character is not in drop (0: none)
FirstKept(s, drop) ==
  LET K == {i \in 1..Len(s) : s[i] \notin drop}
  IN  IF K = {} THEN 0 ELSE Min(K)

LastKept(s, drop) ==
  LET K == {i \in 1..Len(s) : s[Len(s) + 1 - i] \notin drop}
  IN  IF K = {} THEN 0 ELSE Len(s) + 1 - Min(K)

\* s.strip(), s.strip(chars)
StripChars(s, drop) ==
  IF FirstKept(s, drop) = 0 THEN <<>>
  ELSE SubSeq(s, FirstKept(s, drop), LastKept(s, drop))

Strip(s) == StripChars(s, Whitespace)

\* s.lstrip("\n")
LStripNewlines(s) ==
  IF FirstKept(s, {"\n"}) = 0 THEN <<>> ELSE SubSeq(s, FirstKept(s, {"\n"}), Len(s))

\* the backtick character (a string literal cannot hold it)
Backtick == "BACKTICK"

\* s.strip(backtick)
StripBackticks(s) == StripChars(s, {Backtick})

\* s[n:]
SliceFrom(s, n) == SubSeq(s, n + 1, Len(s))

\* s[:n]
SliceTo(s, n) == SubSeq(s, 1, IF n < Len(s) THEN n ELSE Len(s))

\* s.replace(old, new): every non-overlapping occurrence, leftmost first; M holds the
\* positions of old in s (old is never empty where the source calls it)
RECURSIVE ReplaceFrom(_, _, _, _, _)
ReplaceFrom(s, old, new, i, M) ==
  LET R == {j \in M : j >= i}
  IN  IF R = {} THEN SubSeq(s, i, Len(s))
      ELSE SubSeq(s, i, Min(R) - 1) \o new
             \o ReplaceFrom(s, old, new, Min(R) + Len(old), M)

Replace(s, old, new) == ReplaceFrom(s, old, new, 1, MatchesFrom(s, 1, old))

\* s.split(sep): the pieces between the non-overlapping occurrences of sep
RECURSIVE SplitFrom(_, _, _, _)
SplitFrom(s, sep, i, M) ==
  LET R == {j \in M : j >= i}
  IN  IF R = {} THEN << SubSeq(s, i, Len(s)) >>
      ELSE << SubSeq(s, i, Min(R) - 1) >> \o SplitFrom(s, sep, Min(R) + Len(sep), M)

Split(s, sep) == SplitFrom(s, sep, 1, MatchesFrom(s, 1, sep))

\* sep.join(parts)
RECURSIVE Join(_, _)
Join(parts, sep) ==
  IF Len(parts) = 0 THEN <<>>
  ELSE IF Len(parts) = 1 THEN parts[1]
  ELSE parts[1] \o sep \o Join(Tail(parts), sep)

NL == <<"\n">>

(***************************************************************************)
(* The TODO document: init_todo's template and the markers of the store.   *)
(***************************************************************************)
PendingMarker == <<"-"," ","["," ","]">>
PendingPrefix == <<"-"," ","["," ","]"," ">>
DonePrefix == <<"-"," ","[","x","]"," ">>
Title == <<"#"," ","F","i","r","e","L","a","t","e","r"," ","A","u","t","o","n","o","m","o","u",
    "s"," ","D","e","v","e","l","o","p","m","e","n","t">>
PriorityQueueTitle == <<"#","#"," ","P","r","i","o","r","i","t","y"," ","Q","u","e","u","e">>
PriorityQueueHeading == PriorityQueueTitle \o NL
CompletedHeading == <<"#","#"," ","C","o","m","p","l","e","t","e","d">>
SessionLogHeading == <<"#","#"," ","S","e","s","s","i","o","n"," ","L","o","g">>

\* the descriptions of the ten tasks the template seeds, in document order
SeedTasks ==
  << <<"A","U","D","I","T",":"," ","S","e","c","u","r","i","t","y"," ","a","u","d","i",
      "t"," ","o","f"," ","a","u","t","h","e","n","t","i","c","a","t","i","o","n"," ","f",
      "l","o","w"," ","i","n"," ","b","a","c","k","e","n","d","/","s","r","c","/","r","o",
      "u","t","e","s","/","a","u","t","h",".","t","s">>,
     <<"A","U","D","I","T",":"," ","C","h","e","c","k"," ","S","Q","L"," ","i","n","j",
      "e","c","t","i","o","n"," ","v","u","l","n","e","r","a","b","i","l","i","t","i","e",
      "s"," ","i","n"," ","d","a","t","a","b","a","s","e"," ","q","u","e","r","i","e","s">>,
     <<"A","U","D","I","T",":"," ","R","e","v","i","e","w"," ","e","r","r","o","r"," ",
      "h","a","n","d","l","i","n","g"," ","a","c","r","o","s","s"," ","A","P","I"," ","e",
      "n","d","p","o","i","n","t","s">>,
     <<"S","T","A","B","I","L","I","T","Y",":"," ","A","d","d"," ","i","n","p","u","t",
      " ","v","a","l","i","d","a","t","i","o","n"," ","t","o"," ","a","l","l"," ","A","P",
      "I"," ","e","n","d","p","o","i","n","t","s">>,
     <<"T","E","S","T",":"," ","A","d","d"," ","u","n","i","t"," ","t","e","s","t","s",
      " ","f","o","r"," ","c","r","i","t","i","c","a","l"," ","b","u","s","i","n","e","s",
      "s"," ","l","o","g","i","c">>,
     <<"P","E","R","F",":"," ","O","p","t","i","m","i","z","e"," ","s","l","o","w"," ",
      "d","a","t","a","b","a","s","e"," ","q","u","e","r","i","e","s">>,
     <<"S","E","C","U","R","I","T","Y",":"," ","I","m","p","l","e","m","e","n","t"," ",
      "r","a","t","e"," ","l","i","m","i","t","i","n","g">>,
     <<"U","X",":"," ","I","m","p","r","o","v","e"," ","e","r","r","o","r"," ","m","e",
      "s","s","a","g","e","s">>,
     <<"D","O","C","S",":"," ","U","p","d","a","t","e"," ","A","P","I"," ","d","o","c",
      "u","m","e","n","t","a","t","i","o","n">>,
     <<"P","R","O","D",":"," ","R","e","v","i","e","w"," ","p","r","o","d","u","c","t",
      "i","o","n"," ","c","o","n","f","i","g","u","r","a","t","i","o","n">> >>

\* the lines "- [ ] <description>\n" of a list of descriptions
RECURSIVE PendingLines(_)
PendingLines(descs) ==
  IF Len(descs) = 0 THEN <<>>
  ELSE PendingPrefix \o Head(descs) \o NL \o PendingLines(Tail(descs))

\* a document of the template's shape holding the given pending tasks
Template(title, descs) ==
  title \o NL \o NL \o PriorityQueueHeading \o PendingLines(descs) \o NL
    \o CompletedHeading \o NL \o NL \o SessionLogHeading \o NL \o NL

\* the text init_todo writes when the file does not exist
StarterTodo == Template(Title, SeedTasks)

(***************************************************************************)
(* Task store.                                                             *)
(***************************************************************************)
\* the lines of the document get_next_task accepts as pending
IsPendingLine(line) == StartsWith(Strip(line), PendingMarker)

\* a slice that starts one character late
DescriptionOfLate(line) == Strip(SliceFrom(Strip(line), 7))

\* line.strip()[6:].strip()
DescriptionOf(line) == Strip(SliceFrom(Strip(line), 6))

GetNextTask(content) ==
  LET lines == Split(content, NL)
      P == {i \in 1..Len(lines) : IsPendingLine(lines[i])}
  IN  IF P = {} THEN <<>> ELSE DescriptionOf(lines[Min(P)])

MarkTaskComplete(content, t) ==
  Replace(content, PendingPrefix \o t, DonePrefix \o t)

\* datetime.now().strftime("%Y-%m-%d %H:%M") at minute m of the run's first hour
Digits == <<"0","1","2","3","4","5","6","7","8","9">>
Timestamp(m) ==
  <<"2","0","2","6","-","0","1","-","0","1"," ","0","0",":">>
    \o << Digits[(m \div 10) + 1], Digits[(m % 10) + 1] >>

NoteLine(m, note) == <<"-"," ","[">> \o Timestamp(m) \o <<"]"," ">> \o note \o NL

AddSessionNote(content, m, note) ==
  IF Contains(content, SessionLogHeading)
  THEN LET parts == Split(content, SessionLogHeading)
       IN  parts[1] \o SessionLogHeading \o NL \o NoteLine(m, note)
             \o LStripNewlines(parts[2])
  ELSE content

\* the insertion loop of run_analysis over the lines of the model's reply
RECURSIVE AddTasks(_, _)
AddTasks(content, lines) ==
  IF Len(lines) = 0 THEN content
  ELSE LET line == Strip(Head(lines))
       IN  AddTasks(IF StartsWith(line, PendingMarker) /\ ~Contains(content, line)
                    THEN Replace(content, PriorityQueueHeading,
                                 PriorityQueueHeading \o line \o NL)
                    ELSE content,
                    Tail(lines))

RunAnalysis(content, reply) == AddTasks(content, Split(reply, NL))


(***************************************************************************)
(* Response parser and file writer.  The files under PROJECT_DIR are a     *)
(* function from the paths that exist to their text; a write is reliable.  *)
(***************************************************************************)
FileHeading == <<"F","I","L","E",":">>
Fence == <<Backtick, Backtick, Backtick>>

\* the shortest content save_file_changes writes
MinContentLength == 20
\* an existing file longer than this is protected from much smaller content
SnippetFloor == 200

\* filepath.strip().strip(backtick).strip()
SanitizePath(filepath) == Strip(StripBackticks(Strip(filepath)))

\* a comparison that lets content one character short pass
TooSmallLate(content) == Len(content) < MinContentLength - 1

\* len(content) < 20
TooSmall(content) == Len(content) < MinContentLength

\* a comparison that also rejects content of exactly a fifth of the existing length
LooksLikeSnippetInclusive(content, existing) ==
  5 * Len(content) <= Len(existing) /\ Len(existing) > SnippetFloor

\* len(content) < len(existing) * 0.2 and len(existing) > 200.  The product is a
\* binary float: for a length that is a multiple of 5 it is exactly the fifth, and
\* otherwise it is not an integer, so for an integer n, n < e * 0.2 iff 5 * n < e.
LooksLikeSnippet(content, existing) ==
  5 * Len(content) < Len(existing) /\ Len(existing) > SnippetFloor

\* whether save_file_changes reaches its write
SaveAccepts(filepath, content, files) ==
  /\ Strip(content) # <<>>
  /\ SanitizePath(filepath) # <<>>
  /\ ~TooSmall(content)
  /\ SanitizePath(filepath) \in DOMAIN files
       => ~LooksLikeSnippet(content, files[SanitizePath(filepath)])

\* full_path.write_text(content): the file is created or wholly replaced
WriteText(files, path, content) ==
  [p \in DOMAIN files \cup {path} |-> IF p = path THEN content ELSE files[p]]

\* save_file_changes: its result, the files after it and the write it made (if any)
SaveFileChanges(filepath, content, files) ==
  IF SaveAccepts(filepath, content, files)
  THEN [ok |-> TRUE,
        files |-> WriteText(files, SanitizePath(filepath), content),
        written |-> << <<SanitizePath(filepath), content>> >>]
  ELSE [ok |-> FALSE, files |-> files, written |-> <<>>]

\* the state of apply_changes before its first line (None is modelled as the empty
\* str: the source only tests current_file for truth)
ParserStart(files) ==
  [current_file |-> <<>>, current_content |-> <<>>, in_code_block |-> FALSE,
   changes_made |-> FALSE, files |-> files, written |-> <<>>]

\* if save_file_changes(current_file, "\n".join(current_content)): changes_made = True
Flush(st) ==
  LET r == SaveFileChanges(st.current_file, Join(st.current_content, NL), st.files)
  IN  [st EXCEPT !.changes_made = st.changes_made \/ r.ok,
                 !.files = r.files,
                 !.written = st.written \o r.written]

\* line.strip().startswith("FILE:")
IsFileHeading(line) == StartsWith(Strip(line), FileHeading)

\* line.startswith(three backticks)
IsFence(line) == StartsWith(line, Fence)

\* one pass of the loop body of apply_changes
ApplyLine(st, line) ==
  IF IsFileHeading(line)
  THEN [(IF st.current_file # <<>> /\ st.current_content # <<>> THEN Flush(st) ELSE st)
          EXCEPT !.current_file = Strip(Replace(line, FileHeading, <<>>)),
                 !.current_content = <<>>,
                 !.in_code_block = FALSE]
  ELSE IF IsFence(line)
  THEN [(IF st.in_code_block /\ st.current_file # <<>> /\ st.current_content # <<>>
         THEN [Flush(st) EXCEPT !.current_content = <<>>]
         ELSE st)
          EXCEPT !.in_code_block = ~st.in_code_block]
  ELSE IF st.in_code_block /\ st.current_file # <<>>
  THEN [st EXCEPT !.current_content = Append(st.current_content, line)]
  ELSE st

\* an end of input that flushes nothing
ApplyEndNoFlush(st) == st

\* the flush after the loop
ApplyEnd(st) ==
  IF st.current_file # <<>> /\ st.current_content # <<>> THEN Flush(st) ELSE st

RECURSIVE ApplyLines(_, _)
ApplyLines(st, lines) ==
  IF Len(lines) = 0 THEN st ELSE ApplyLines(ApplyLine(st, Head(lines)), Tail(lines))

\* apply_changes(response) on the given files
ApplyChanges(reply, files) == ApplyEnd(ApplyLines(ParserStart(files), Split(reply, NL)))

(***************************************************************************)
(* State.                                                                  *)
(***************************************************************************)
VARIABLES
  todo,                  \* the text of TODO_FILE
  task,                  \* main's task: the last result of get_next_task
  marked,                \* the descriptions mark_task_complete was called with, in order
  skips,                 \* how many of those calls skipped the task last returned
  calls,                 \* how many store operations changed the document
  clock,                 \* the minute datetime.now() shows
  call,                  \* the last operation: its name, argument, the state before it
  fs,                    \* the files under PROJECT_DIR: path -> text
  writes,                \* the write_text calls of save_file_changes: <<path, text>>
  reply,                 \* the lines of the response apply_changes works on
  pos,                   \* how many of them its loop has consumed
  current_file,          \* apply_changes: current_file
  current_content,       \* apply_changes: current_content
  in_code_block,         \* apply_changes: in_code_block
  changes_made,          \* apply_changes and main: changes_made
  pc,                    \* where main's loop stands
  iteration,             \* main: iteration
  consecutive_failures,  \* main: consecutive_failures
  error,                 \* the text of the exception main's handler caught
  commits,               \* the messages git_commit was called with
  pauses,                \* how many times main slept its long pause
  cycles                 \* one record per iteration: what it started from and how it went

storeVars == <<todo, task, marked, skips, calls, clock, call>>
fileVars == <<fs, writes>>
parserVars == <<reply, pos, current_file, current_content, in_code_block, changes_made>>
loopVars == <<pc, iteration, consecutive_failures, error, commits, pauses, cycles>>
vars == <<storeVars, fileVars, parserVars, loopVars>>

NoCall == [name |-> "none", arg |-> <<>>, before |-> <<>>]
NoFiles == <<>>

StoreIdle ==
  /\ task = <<>>
  /\ marked = <<>>
  /\ skips = 0
  /\ calls = 0
  /\ clock = 0
  /\ call = NoCall

FilesIdle ==
  /\ fs = NoFiles
  /\ writes = <<>>

ParserIdle ==
  /\ reply = <<>>
  /\ pos = 0
  /\ current_file = <<>>
  /\ current_content = <<>>
  /\ in_code_block = FALSE
  /\ changes_made = FALSE

LoopIdle ==
  /\ pc = "fetch"
  /\ iteration = 0
  /\ consecutive_failures = 0
  /\ error = <<>>
  /\ commits = <<>>
  /\ pauses = 0
  /\ cycles = <<>>

\* the descriptions of the pending lines of a document, in document order
PendingDescriptions(content) ==
  LET lines == Split(content, NL)
      F[i \in 0..Len(lines)] ==
        IF i = 0 THEN <<>>
        ELSE IF IsPendingLine(lines[i]) THEN Append(F[i - 1], DescriptionOf(lines[i]))
        ELSE F[i - 1]
  IN  F[Len(lines)]

(***************************************************************************)
(* Operations of the task store.                                           *)
(***************************************************************************)
\* task = get_next_task()
NextPending ==
  /\ task' = GetNextTask(todo)
  /\ call' = [name |-> "get_next_task", arg |-> <<>>, before |-> todo]
  /\ UNCHANGED <<todo, marked, skips, calls, clock, fileVars, parserVars, loopVars>>

\* mark_task_complete(d)
MarkDone(d) ==
  /\ todo' = MarkTaskComplete(todo, d)
  /\ marked' = Append(marked, d)
  /\ call' = [name |-> "mark_task_complete", arg |-> d, before |-> todo]
  /\ UNCHANGED <<task, clock, fileVars, parserVars, loopVars>>

(***************************************************************************)
(* The task store worked from the starter document: get_next_task and      *)
(* mark_task_complete only.                                                *)
(***************************************************************************)
InitStarter ==
  /\ todo = StarterTodo
  /\ StoreIdle
  /\ FilesIdle
  /\ ParserIdle
  /\ LoopIdle

\* mark_task_complete with the description get_next_task returned
MarkReturned ==
  /\ call.name = "get_next_task"
  /\ task # <<>>
  /\ MarkDone(task)
  /\ UNCHANGED <<skips, calls>>

\* mark_task_complete with the description of the pending task after the first
MarkSecond ==
  /\ skips < MaxSkips
  /\ Len(PendingDescriptions(todo)) >= 2
  /\ MarkDone(PendingDescriptions(todo)[2])
  /\ skips' = skips + 1
  /\ UNCHANGED calls

NextStarter == NextPending \/ MarkReturned \/ MarkSecond

SpecStarter == InitStarter /\ [][NextStarter]_vars

\* the starter document with the checkbox of every description in ds flipped
RECURSIVE TaskLines(_, _)
TaskLines(descs, ds) ==
  IF Len(descs) = 0 THEN <<>>
  ELSE (IF \E i \in 1..Len(ds) : ds[i] = Head(descs) THEN DonePrefix ELSE PendingPrefix)
         \o Head(descs) \o NL \o TaskLines(Tail(descs), ds)

StarterWith(ds) ==
  Title \o NL \o NL \o PriorityQueueHeading \o TaskLines(SeedTasks, ds) \o NL
    \o CompletedHeading \o NL \o NL \o SessionLogHeading \o NL \o NL

\* the seeded descriptions mark_task_complete has not been called with, in document order
Unmarked == SelectSeq(SeedTasks, LAMBDA d : \A i \in 1..Len(marked) : marked[i] # d)

\* C1: on the starter document get_next_task returns the first seeded task not yet
\* marked, on every call; a marked task is done in place, is not pending and is not
\* returned again; when all ten are marked the result is empty.
C1_StarterWalk ==
  /\ GetNextTask(todo) = (IF Len(Unmarked) = 0 THEN <<>> ELSE Unmarked[1])
  /\ call.name = "get_next_task" => task = GetNextTask(todo)
  /\ PendingDescriptions(todo) = Unmarked
  /\ \A i \in 1..Len(marked) : GetNextTask(todo) # marked[i]
  /\ todo = StarterWith(marked)

\* the ten seeded tasks were returned and marked in document order, and the queue is empty
C1_Witness ==
  /\ marked = SeedTasks
  /\ call.name = "get_next_task"
  /\ task = <<>>

(***************************************************************************)
(* The task store under its operations, from a document whose queue is     *)
(* empty.  The replies are what a discovery pass may hand to run_analysis. *)
(***************************************************************************)
DescA == <<"B","U","G",":"," ","a">>
DescAB == <<"B","U","G",":"," ","a","b">>
\* a description that ends with the text of the queue's heading
DescHeading == <<"D","O","C","S",":"," ","c"," ">> \o PriorityQueueTitle
DescAbsent == <<"U","X",":"," ","z">>
\* a description that holds the text of the log's heading
DescLog == <<"D","O","C","S",":"," ","e"," ">> \o SessionLogHeading

\* two tasks, the first description a prefix of the second
ReplyPair == PendingPrefix \o DescA \o NL \o PendingPrefix \o DescAB
\* a task ending with the heading text, then an indented task
ReplyHeading ==
  PendingPrefix \o DescHeading \o NL \o <<" "," ">> \o PendingPrefix \o DescA \o <<" ">>
\* the longer of the two alone
ReplyLonger == PendingPrefix \o DescAB
\* no task line at all
ReplyProse == <<"N","o"," ","n","e","w"," ","i","s","s","u","e","s",".">>

StoreReplies == {ReplyPair, ReplyLonger, ReplyHeading, ReplyProse}
StoreDescriptions == {DescA, DescAB, DescHeading, DescAbsent, DescLog}

CompletedNote == <<"C","o","m","p","l","e","t","e","d",":"," ">>

InitStore ==
  /\ todo = Template(Title, <<>>)
  /\ StoreIdle
  /\ FilesIdle
  /\ ParserIdle
  /\ LoopIdle

StoreMarkDone ==
  /\ calls < MaxStoreCalls
  /\ \E d \in StoreDescriptions : MarkDone(d)
  /\ calls' = calls + 1
  /\ UNCHANGED skips

\* the insertion step of run_analysis on a reply
StoreAppendTasks ==
  /\ calls < MaxStoreCalls
  /\ \E r \in StoreReplies :
       /\ todo' = RunAnalysis(todo, r)
       /\ call' = [name |-> "run_analysis", arg |-> r, before |-> todo]
  /\ calls' = calls + 1
  /\ UNCHANGED <<task, marked, skips, clock, fileVars, parserVars, loopVars>>

StoreAddNote ==
  /\ calls < MaxStoreCalls
  /\ \E d \in StoreDescriptions :
       /\ todo' = AddSessionNote(todo, clock, CompletedNote \o d)
       /\ call' = [name |-> "add_session_note", arg |-> CompletedNote \o d, before |-> todo]
  /\ calls' = calls + 1
  /\ UNCHANGED <<task, marked, skips, clock, fileVars, parserVars, loopVars>>

\* a minute passes
Tick ==
  /\ clock < MaxClock
  /\ clock' = clock + 1
  /\ UNCHANGED <<todo, task, marked, skips, calls, call, fileVars, parserVars, loopVars>>

NextStore == NextPending \/ StoreMarkDone \/ StoreAppendTasks \/ StoreAddNote \/ Tick

SpecStore == InitStore /\ [][NextStore]_vars

\* the lines of a document
Lines(content) == Split(content, NL)

\* the positions of the pending lines of a document that carry description d
PendingAt(content, d) ==
  {i \in 1..Len(Lines(content)) :
     IsPendingLine(Lines(content)[i]) /\ DescriptionOf(Lines(content)[i]) = d}

\* C3: mark_done(d) flips the first pending line with description d to done and leaves
\* every other line, a later pending line with the same description included, as it was.
C3_MarkDoneOneLine ==
  call.name = "mark_task_complete" =>
    LET before == Lines(call.before)
        after == Lines(todo)
        P == PendingAt(call.before, call.arg)
    IN  /\ Len(after) = Len(before)
        /\ \A i \in 1..Len(before) :
             IF P # {} /\ i = Min(P)
             THEN after[i] = Replace(before[i], PendingPrefix, DonePrefix)
             ELSE after[i] = before[i]

\* C4: mark_done(d) when no pending task has description d leaves the document unchanged.
C4_MarkDoneAbsentNoOp ==
  (call.name = "mark_task_complete" /\ PendingAt(call.before, call.arg) = {})
    => todo = call.before

\* the candidate lines of a reply: its stripped lines that start with the pending marker
Candidates(r) ==
  {Strip(Lines(r)[i]) : i \in {j \in 1..Len(Lines(r)) : IsPendingLine(Lines(r)[j])}}

\* how many lines of a document are exactly the text l
Occurrences(content, l) == Cardinality({i \in 1..Len(Lines(content)) : Lines(content)[i] = l})

\* no line is inserted whose text the document already held
C6_NoReinsert ==
  call.name = "run_analysis" =>
    \A l \in Candidates(call.arg) :
      Contains(call.before, l) => Occurrences(todo, l) = Occurrences(call.before, l)

\* a second run with the same reply changes nothing
C6_Idempotent ==
  call.name = "run_analysis" => RunAnalysis(todo, call.arg) = todo

\* C6: append_tasks inserts no candidate whose text the document already holds, a second
\* run with the same candidates changes nothing, and no candidate line ends up in the
\* document more than once.
C6_AppendOnce ==
  /\ C6_NoReinsert
  /\ C6_Idempotent
  /\ call.name = "run_analysis" =>
       \A l \in Candidates(call.arg) : Occurrences(todo, l) <= 1

\* a line of the shape add_session_note writes: "- [", a timestamp, "] ", a text
IsNoteLine(l) ==
  /\ StartsWith(l, <<"-", " ", "[">>)
  /\ Len(l) > 3
  /\ \E i \in 1..Len(Digits) : Digits[i] = l[4]

\* the notes of the Session Log section of a document: the note lines below the first
\* line that is the section's heading
SectionNotes(content) ==
  LET lines == Lines(content)
      H == {i \in 1..Len(lines) : lines[i] = SessionLogHeading}
  IN  IF H = {} THEN <<>>
      ELSE SelectSeq(SubSeq(lines, Min(H) + 1, Len(lines)), IsNoteLine)

\* C13: add_session_note puts its line at the end of the Session Log section, below
\* every note already there, so the notes stand in the order they were appended.
C13_NotesInOrder ==
  call.name = "add_session_note" =>
    LET old == SectionNotes(call.before)
        new == SectionNotes(todo)
    IN  /\ Len(new) = Len(old) + 1
        /\ SubSeq(new, 1, Len(old)) = old
        /\ EndsWith(new[Len(new)], <<"]", " ">> \o call.arg)

\* the lines of a document that are not blank
NonBlank(content) == SelectSeq(Lines(content), LAMBDA l : Strip(l) # <<>>)

\* a sequence without its k-th element
Without(s, k) == SubSeq(s, 1, k - 1) \o SubSeq(s, k + 1, Len(s))

\* C14: no operation of the task store removes or changes a note of the Session Log, and
\* add_session_note changes nothing in the document but for the one line it adds,
\* whatever the note text and the document hold.
C14_AppendOnly ==
  /\ call.name \in {"add_session_note", "mark_task_complete", "run_analysis"} =>
       \A i \in 1..Len(SectionNotes(call.before)) :
         Occurrences(todo, SectionNotes(call.before)[i])
           >= Occurrences(call.before, SectionNotes(call.before)[i])
  /\ call.name = "add_session_note" =>
       \E k \in 1..Len(NonBlank(todo)) :
         /\ Without(NonBlank(todo), k) = NonBlank(call.before)
         /\ EndsWith(NonBlank(todo)[k], <<"]", " ">> \o call.arg)

(***************************************************************************)
(* main: the driver loop, one action per step of an iteration.  The        *)
(* document exists when the run starts and holds two pending tasks.        *)
(***************************************************************************)
max_failures == 3

AutoPrefix == <<"A","u","t","o",":"," ">>
FailedNote == <<"F","A","I","L","E","D",":"," ">>
\* what call_llm returns when the request fails
ErrorReply == <<"E","R","R","O","R",":"," ","t","i","m","e","d"," ","o","u","t">>
\* the text of an exception raised in a task cycle
ExceptionText == <<"d","i","s","k"," ","f","u","l","l">>

PathA == <<"a",".","t","s">>
CodeLine == <<"e","x","p","o","r","t"," ","c","o","n","s","t"," ","a"," ","="," ","1","2","3",
    "4","5",";">>
\* a reply of execute_task's model call that holds one file block
ReplyFile ==
  Join(<< <<"F","i","x",":">>, FileHeading \o <<" ">> \o PathA, Fence \o <<"t","s">>,
          CodeLine, Fence >>, NL)

TaskReplies == {ReplyFile, ErrorReply}

DescSpaced == <<"U","X",":"," ","d">>
\* the longer of two tasks first
ReplyPairReversed == PendingPrefix \o DescAB \o NL \o PendingPrefix \o DescA
\* a task line with two blanks after the checkbox
ReplySpaced == PendingMarker \o <<" "," ">> \o DescSpaced
\* a task line with no blank after the checkbox
ReplyBare == PendingMarker \o <<"x">>

\* a task the queue held when the run started, proposed once more
ReplyAgain == PendingPrefix \o DescA

DiscoveryReplies == {ReplyAgain, ReplyPairReversed, ReplySpaced, ReplyBare}

\* the text call_llm puts before the exception detail
ErrorMarker == <<"E","R","R","O","R",":"," ">>
\* str(e) of the TypeError that len(None) raises in execute_task
NoneLenText ==
  <<"o","b","j","e","c","t"," ","o","f"," ","t","y","p","e"," ","'","N","o","n","e","T","y",
    "p","e","'"," ","h","a","s"," ","n","o"," ","l","e","n","(",")">>

PathB == <<"b",".","t","s">>
\* a reply that holds two file blocks
ReplyTwoFiles ==
  Join(<< FileHeading \o <<" ">> \o PathA, Fence, CodeLine, Fence,
          FileHeading \o <<" ">> \o PathB, Fence, CodeLine, Fence >>, NL)

\* what the request of call_llm comes to: urlopen, read, decode or json.loads raises, or
\* the body is a JSON object whose message content is a str, is null, or is missing
TaskOutcomes ==
  { [kind |-> "content", text |-> ReplyTwoFiles],
    [kind |-> "raised", text |-> SliceFrom(ErrorReply, Len(ErrorMarker))],
    [kind |-> "null", text |-> <<>>] }

DiscoveryOutcomes ==
  {[kind |-> "content", text |-> r] : r \in DiscoveryReplies}
    \cup {[kind |-> "raised", text |-> SliceFrom(ErrorReply, Len(ErrorMarker))],
          [kind |-> "missing", text |-> <<>>],
          [kind |-> "null", text |-> <<>>]}

\* call_llm: the exception text behind the marker when the request raised, and otherwise
\* result.get('message', {}).get('content', ''), which is None for a null content
CallLLM(o) ==
  IF o.kind = "raised" THEN [none |-> FALSE, text |-> ErrorMarker \o o.text]
  ELSE IF o.kind = "content" THEN [none |-> FALSE, text |-> o.text]
  ELSE IF o.kind = "null" THEN [none |-> TRUE, text |-> <<>>]
  ELSE [none |-> FALSE, text |-> <<>>]

\* a comparison that pauses one failure late
TooManyFailuresLate(n) == n > max_failures

\* consecutive_failures >= max_failures
TooManyFailures(n) == n >= max_failures

\* the record of the iteration under way
LastCycle == cycles[Len(cycles)]
CycleSet(r) == [cycles EXCEPT ![Len(cycles)] = r]

\* the positions k of the lines of a reply such that apply_changes, its first k - 1 lines
\* consumed, calls save_file_changes next (k past the last line: the call after the loop)
FlushPoints(lines, files) ==
  {k \in 1..(Len(lines) + 1) :
     LET st == ApplyLines(ParserStart(files), SubSeq(lines, 1, k - 1))
     IN  /\ st.current_file # <<>>
         /\ st.current_content # <<>>
         /\ \/ k = Len(lines) + 1
            \/ IsFileHeading(lines[k])
            \/ ~IsFileHeading(lines[k]) /\ IsFence(lines[k]) /\ st.in_code_block}

Init ==
  /\ todo = Template(Title, <<DescA, DescAbsent>>)
  /\ StoreIdle
  /\ FilesIdle
  /\ ParserIdle
  /\ LoopIdle

\* iteration += 1; task = get_next_task(); if not task: ...
Fetch ==
  /\ pc = "fetch"
  /\ iteration < MaxIterations
  /\ iteration' = iteration + 1
  /\ task' = GetNextTask(todo)
  /\ call' = [name |-> "get_next_task", arg |-> <<>>, before |-> todo]
  /\ pc' = IF GetNextTask(todo) = <<>> THEN "analysis" ELSE "execute"
  /\ cycles' = Append(cycles,
       [task |-> GetNextTask(todo), todo |-> todo, writes |-> Len(writes),
        commits |-> Len(commits), failures |-> consecutive_failures,
        outcome |-> "running", paused |-> FALSE, order |-> <<>>])
  /\ UNCHANGED <<todo, marked, skips, calls, clock, fileVars, parserVars,
                 consecutive_failures, error, commits, pauses>>

\* run_analysis(); time.sleep(10); continue.  A None response makes response.split
\* raise outside main's try block, which ends the loop.
Analysis ==
  /\ pc = "analysis"
  /\ \E o \in DiscoveryOutcomes :
       IF CallLLM(o).none
       THEN /\ pc' = "crashed"
            /\ call' = [name |-> "crashed", arg |-> <<>>, before |-> todo]
            /\ todo' = todo
       ELSE /\ pc' = "fetch"
            /\ call' = [name |-> "run_analysis", arg |-> CallLLM(o).text, before |-> todo]
            /\ todo' = RunAnalysis(todo, CallLLM(o).text)
  /\ cycles' = CycleSet([LastCycle EXCEPT !.outcome = "discovery"])
  /\ UNCHANGED <<task, marked, skips, calls, clock, fileVars, parserVars,
                 iteration, consecutive_failures, error, commits, pauses>>

\* changes_made = execute_task(task).  len(response) raises a TypeError for None.
Execute ==
  /\ pc = "execute"
  /\ \E o \in TaskOutcomes :
       /\ IF CallLLM(o).none
          THEN /\ error' = NoneLenText
               /\ pc' = "except"
               /\ call' = [name |-> "execute_task", arg |-> <<>>, before |-> fs,
                           outcome |-> o.kind]
               /\ UNCHANGED <<fs, writes, changes_made>>
          ELSE /\ fs' = ApplyChanges(CallLLM(o).text, fs).files
               /\ writes' = writes \o ApplyChanges(CallLLM(o).text, fs).written
               /\ changes_made' = ApplyChanges(CallLLM(o).text, fs).changes_made
               /\ pc' = "mark"
               /\ call' = [name |-> "execute_task", arg |-> CallLLM(o).text,
                           before |-> fs, outcome |-> o.kind]
               /\ error' = error
  /\ UNCHANGED <<todo, task, marked, skips, calls, clock,
                 reply, pos, current_file, current_content, in_code_block,
                 iteration, consecutive_failures, commits, pauses, cycles>>

\* execute_task, with a call of save_file_changes that raises before its try block:
\* read_text of a target that exists and is a directory or is not text
ExecuteRaise ==
  /\ pc = "execute"
  /\ \E o \in TaskOutcomes :
       /\ ~CallLLM(o).none
       /\ \E k \in FlushPoints(Split(CallLLM(o).text, NL), fs) :
            LET st == ApplyLines(ParserStart(fs),
                                 SubSeq(Split(CallLLM(o).text, NL), 1, k - 1))
            IN  /\ fs' = st.files
                /\ writes' = writes \o st.written
       /\ call' = [name |-> "execute_task", arg |-> CallLLM(o).text, before |-> fs,
                   outcome |-> o.kind]
  /\ error' = ExceptionText
  /\ pc' = "except"
  /\ UNCHANGED <<todo, task, marked, skips, calls, clock, parserVars,
                 iteration, consecutive_failures, commits, pauses, cycles>>

\* mark_task_complete(task)
Mark ==
  /\ pc = "mark"
  /\ todo' = MarkTaskComplete(todo, task)
  /\ marked' = Append(marked, task)
  /\ call' = [name |-> "mark_task_complete", arg |-> task, before |-> todo]
  /\ pc' = "note"
  /\ cycles' = CycleSet([LastCycle EXCEPT !.order = Append(@, "mark")])
  /\ UNCHANGED <<task, skips, calls, clock, fileVars, parserVars,
                 iteration, consecutive_failures, error, commits, pauses>>

\* add_session_note(f"Completed: {task}")
Note ==
  /\ pc = "note"
  /\ todo' = AddSessionNote(todo, clock, CompletedNote \o task)
  /\ call' = [name |-> "add_session_note", arg |-> CompletedNote \o task, before |-> todo]
  /\ pc' = "commit"
  /\ cycles' = CycleSet([LastCycle EXCEPT !.order = Append(@, "note")])
  /\ UNCHANGED <<task, marked, skips, calls, clock, fileVars, parserVars,
                 iteration, consecutive_failures, error, commits, pauses>>

\* if changes_made: git_commit(f"Auto: {task[:50]}"); consecutive_failures = 0
Commit ==
  /\ pc = "commit"
  /\ commits' = IF changes_made THEN Append(commits, AutoPrefix \o SliceTo(task, 50))
                ELSE commits
  /\ consecutive_failures' = 0
  /\ call' = [name |-> "completed", arg |-> task, before |-> todo]
  /\ pc' = "sleep"
  /\ cycles' = CycleSet([LastCycle EXCEPT
                           !.order = IF changes_made THEN Append(@, "commit") ELSE @,
                           !.outcome = "ok"])
  /\ UNCHANGED <<todo, task, marked, skips, calls, clock, fileVars, parserVars,
                 iteration, error, pauses>>

\* an exception leaves the try block: in execute_task before the model is called, in
\* mark_task_complete, or in add_session_note (TODO_FILE cannot be read or written)
Raise ==
  /\ pc \in {"execute", "mark", "note"}
  /\ error' = ExceptionText
  /\ call' = [name |-> "raised", arg |-> pc, before |-> todo]
  /\ pc' = "except"
  /\ UNCHANGED <<todo, task, marked, skips, calls, clock, fileVars, parserVars,
                 iteration, consecutive_failures, commits, pauses, cycles>>

\* a handler that counts the failure and writes no note
ExceptSilent ==
  /\ pc = "except"
  /\ call' = [name |-> "failed", arg |-> task, before |-> todo]
  /\ consecutive_failures' = consecutive_failures + 1
  /\ pc' = IF TooManyFailures(consecutive_failures + 1) THEN "pause" ELSE "sleep"
  /\ cycles' = CycleSet([LastCycle EXCEPT !.outcome = "fail"])
  /\ UNCHANGED <<todo, task, marked, skips, calls, clock, fileVars, parserVars,
                 iteration, error, commits, pauses>>

\* a handler that gives the task up: it marks it done before it notes the failure
ExceptGivesUp ==
  /\ pc = "except"
  /\ todo' = AddSessionNote(MarkTaskComplete(todo, task), clock,
                            FailedNote \o task \o <<" ","-"," ">> \o SliceTo(error, 100))
  /\ call' = [name |-> "failed", arg |-> task, before |-> todo]
  /\ consecutive_failures' = consecutive_failures + 1
  /\ pc' = IF TooManyFailures(consecutive_failures + 1) THEN "pause" ELSE "sleep"
  /\ cycles' = CycleSet([LastCycle EXCEPT !.outcome = "fail"])
  /\ UNCHANGED <<task, marked, skips, calls, clock, fileVars, parserVars,
                 iteration, error, commits, pauses>>

\* except Exception as e: the failure note and consecutive_failures += 1
Except ==
  /\ pc = "except"
  /\ todo' = AddSessionNote(todo, clock,
                            FailedNote \o task \o <<" ","-"," ">> \o SliceTo(error, 100))
  /\ call' = [name |-> "failed", arg |-> task, before |-> todo]
  /\ consecutive_failures' = consecutive_failures + 1
  /\ pc' = IF TooManyFailures(consecutive_failures + 1) THEN "pause" ELSE "sleep"
  /\ cycles' = CycleSet([LastCycle EXCEPT !.outcome = "fail"])
  /\ UNCHANGED <<task, marked, skips, calls, clock, fileVars, parserVars,
                 iteration, error, commits, pauses>>

\* if consecutive_failures >= max_failures: time.sleep(60); consecutive_failures = 0.
\* The minute datetime.now() shows has changed when the sleep is over.
Pause ==
  /\ pc = "pause"
  /\ pauses' = pauses + 1
  /\ consecutive_failures' = 0
  /\ clock' = IF clock < MaxClock THEN clock + 1 ELSE clock
  /\ pc' = "sleep"
  /\ cycles' = CycleSet([LastCycle EXCEPT !.paused = TRUE])
  /\ UNCHANGED <<todo, task, marked, skips, calls, call, fileVars, parserVars,
                 iteration, error, commits>>

\* time.sleep(15), short enough to stay within the minute
Sleep ==
  /\ pc = "sleep"
  /\ pc' = "fetch"
  /\ UNCHANGED <<storeVars, fileVars, parserVars,
                 iteration, consecutive_failures, error, commits, pauses, cycles>>

Next ==
  \/ Fetch \/ Analysis \/ Execute \/ ExecuteRaise \/ Mark \/ Note \/ Commit
  \/ Raise \/ Except \/ Pause \/ Sleep

Spec == Init /\ [][Next]_vars

\* whether some pending line of a document carries description d
IsPending(content, d) == PendingAt(content, d) # {}

\* whether a document holds a line get_next_task accepts as pending
HasPendingLine(content) ==
  \E i \in 1..Len(Lines(content)) : IsPendingLine(Lines(content)[i])

\* C2: after a task cycle that raised nothing, the task fetched at the start of the
\* iteration is no longer pending, whatever pending line it was fetched from.
C2_CompletedNotPending ==
  call.name = "completed" => ~IsPending(todo, task)

\* C5: get_next_task returns the empty result only when the document has no pending
\* line, and otherwise the description of the first pending line; so the discovery pass
\* runs only when no pending line exists.
C5_EmptyOnlyWithoutPending ==
  /\ GetNextTask(todo) = <<>> => ~HasPendingLine(todo)
  /\ GetNextTask(todo) # <<>> => GetNextTask(todo) = PendingDescriptions(todo)[1]
  /\ pc = "analysis" => ~HasPendingLine(todo)

Categories ==
  { <<"S","E","C","U","R","I","T","Y">>, <<"B","U","G">>, <<"P","E","R","F">>,
    <<"T","E","S","T">>, <<"S","T","A","B","I","L","I","T","Y">>, <<"U","X">>,
    <<"D","O","C","S">>, <<"R","E","F","A","C","T","O","R">> }

\* a line of the shape "- [ ] CATEGORY: description"
WellFormed(l) ==
  \E c \in Categories :
    /\ StartsWith(l, PendingPrefix \o c \o <<":"," ">>)
    /\ Len(l) > Len(PendingPrefix \o c \o <<":"," ">>)
    /\ l[Len(PendingPrefix \o c \o <<":"," ">>) + 1] \notin Whitespace

\* the stripped lines of a reply
ReplyLines(r) == [i \in 1..Len(Lines(r)) |-> Strip(Lines(r)[i])]

\* C7: when the queue is empty and the discovery pass returns n distinct well-formed
\* lines, none of them a line of the document, all n are inserted and the number of
\* pending lines grows by exactly n.
C7_AllInserted ==
  (/\ call.name = "run_analysis"
   /\ \A i \in 1..Len(ReplyLines(call.arg)) : WellFormed(ReplyLines(call.arg)[i])
   /\ \A i, j \in 1..Len(ReplyLines(call.arg)) :
        i # j => ReplyLines(call.arg)[i] # ReplyLines(call.arg)[j]
   /\ \A i \in 1..Len(ReplyLines(call.arg)) :
        Occurrences(call.before, ReplyLines(call.arg)[i]) = 0)
  => /\ \A i \in 1..Len(ReplyLines(call.arg)) :
          Occurrences(todo, ReplyLines(call.arg)[i]) >= 1
     /\ Len(PendingDescriptions(todo))
          = Len(PendingDescriptions(call.before)) + Len(ReplyLines(call.arg))

\* the task cycles that have ended, in order (a discovery iteration is not a task cycle)
TaskCycles == SelectSeq(cycles, LAMBDA c : c.outcome \in {"ok", "fail"})

\* how many task cycles in a row, the i-th the last of them, have raised since the last
\* task cycle that raised nothing and the last long pause
RECURSIVE RunLength(_, _)
RunLength(T, i) ==
  IF T[i].outcome # "fail" THEN 0
  ELSE IF i = 1 \/ T[i - 1].outcome = "ok" \/ T[i - 1].paused THEN 1
  ELSE RunLength(T, i - 1) + 1

\* C11: the long pause follows a task cycle exactly when it is the third in a row to
\* raise, once per such run; it resets the counter, as a task cycle that raises nothing
\* does; and the counter is 0, 1 or 2 when an iteration starts.
C11_Breaker ==
  LET T == TaskCycles
      n == Len(TaskCycles)
  IN  /\ \A i \in 1..n :
           \/ i = n /\ pc = "pause"
           \/ T[i].paused <=> RunLength(T, i) = 3
      /\ pc = "pause" => n > 0 /\ RunLength(T, n) = 3 /\ ~T[n].paused
      /\ pauses = Cardinality({i \in 1..n : T[i].paused})
      /\ pc # "pause" =>
           consecutive_failures =
             IF n = 0 \/ T[n].paused THEN 0 ELSE RunLength(T, n)
      /\ pc = "fetch" => consecutive_failures \in {0, 1, 2}

\* three task cycles in a row have raised and the long pause is over
C11_Witness ==
  /\ pauses = 1
  /\ pc = "fetch"
  /\ consecutive_failures = 0
  /\ Len(TaskCycles) >= 3
  /\ TaskCycles[Len(TaskCycles)].paused

\* a failure that follows a success, with two failures before the success
C11_WitnessAfterSuccess ==
  /\ Len(TaskCycles) = 4
  /\ TaskCycles[1].outcome = "fail" /\ TaskCycles[2].outcome = "fail"
  /\ TaskCycles[3].outcome = "ok" /\ TaskCycles[4].outcome = "fail"
  /\ pc = "fetch"

\* whether the iteration under way has come to its end
IterationOver == Len(cycles) > 0 /\ pc \in {"sleep", "fetch", "crashed"}

\* C12: in every iteration a commit is issued if and only if a file was written in it;
\* a commit comes after the task was marked and its note appended; a discovery
\* iteration issues none.
C12_CommitIffWrite ==
  Len(cycles) > 0 =>
    /\ IterationOver =>
         (Len(commits) > LastCycle.commits <=> Len(writes) > LastCycle.writes)
    /\ Len(commits) > LastCycle.commits =>
         LastCycle.order = <<"mark", "note", "commit">>
    /\ LastCycle.task = <<>> => Len(commits) = LastCycle.commits

\* the text of the note main's handler writes for the task and exception at hand
FailureText == FailedNote \o task \o <<" ", "-", " ">> \o SliceTo(error, 100)

\* C15: an exception raised in a task cycle is caught by the loop: the handler adds a
\* failure note to the Session Log and raises the counter by exactly one, the loop goes
\* on to its next iteration, and it never ends because a task cycle raised.
C15_Caught ==
  /\ call.name = "failed" =>
       /\ LET notes == SectionNotes(todo)
          IN  /\ Len(notes) = Len(SectionNotes(call.before)) + 1
              /\ \E i \in 1..Len(notes) : EndsWith(notes[i], <<"]", " ">> \o FailureText)
       /\ LastCycle.outcome = "fail"
       /\ ~LastCycle.paused => consecutive_failures = LastCycle.failures + 1
       /\ pc \in {"pause", "sleep", "fetch"}
  /\ pc = "crashed" => LastCycle.outcome = "discovery"

\* a task cycle has raised, the handler has run, and the loop is at its next iteration
C15_Witness ==
  /\ call.name = "failed"
  /\ pc = "fetch"
  /\ iteration < MaxIterations
  /\ consecutive_failures = 2

\* C16: when the model call fails (the request raises, or the body is not the JSON it
\* should be), call_llm returns a text that starts with the marker ERROR: and raises
\* nothing, execute_task returns, and the task cycle writes no file and issues no commit.
C16_FailedCallHarmless ==
  call.name = "execute_task" /\ call.outcome # "content" =>
    /\ StartsWith(call.arg, <<"E", "R", "R", "O", "R", ":">>)
    /\ pc = "mark"
    /\ Len(writes) = LastCycle.writes
    /\ ~changes_made
    /\ Len(commits) = LastCycle.commits

\* C18: a description that mark_task_complete has flipped to done is never returned by
\* get_next_task again, whatever iterations and discovery passes follow, a discovery
\* pass that proposes its pending line once more included.
C18_DoneStaysDone ==
  (call.name = "get_next_task" /\ task # <<>>) =>
    ~ /\ \E i \in 1..Len(marked) : marked[i] = task
      /\ Occurrences(todo, DonePrefix \o task) >= 1

\* the lines of a document but for its notes and its blank lines
TaskText(content) ==
  SelectSeq(Lines(content), LAMBDA l : Strip(l) # <<>> /\ ~IsNoteLine(l))

\* whether a cycle is a task cycle that raised before its task was marked
RaisedUnmarked(c) == c.task # <<>> /\ c.outcome = "fail" /\ c.order = <<>>

\* C19: when a task cycle raises before the task is marked, every line of the queue stays
\* as it was and the next iteration fetches the same task: no other task is executed and
\* no discovery pass runs while its cycles go on raising.
C19_HeadOfLineRetry ==
  /\ (pc = "fetch" /\ Len(cycles) > 0 /\ RaisedUnmarked(LastCycle)) =>
       /\ GetNextTask(todo) = LastCycle.task
       /\ TaskText(todo) = TaskText(LastCycle.todo)
  /\ (call.name = "get_next_task" /\ Len(cycles) > 1
        /\ RaisedUnmarked(cycles[Len(cycles) - 1])) =>
       /\ LastCycle.task = cycles[Len(cycles) - 1].task
       /\ task = LastCycle.task
       /\ pc = "execute"

\* the first task's cycle has raised in every iteration, the long pause included, and
\* the second task is still waiting
C19_Witness ==
  /\ iteration = MaxIterations
  /\ pc = "except"
  /\ \A i \in 1..(Len(cycles) - 1) : RaisedUnmarked(cycles[i])
  /\ pauses = 1
  /\ task = DescA
  /\ IsPending(todo, DescAbsent)

(***************************************************************************)
(* The file writer on its own: save_file_changes called directly, and      *)
(* apply_changes run line by line over a reply that holds one file block.  *)
(***************************************************************************)
\* a text of n copies of one character
Fill(c, n) == [i \in 1..n |-> c]

\* the files when the writer starts: none, or a.ts with a text of the given length
ExistingLengths == {200, 201, 1000}
InitialFiles == {NoFiles} \cup {(PathA :> Fill("o", e)) : e \in ExistingLengths}

\* the arguments of the direct calls
SaveLengths == {19, 20, 40, 41, 150, 200, 250}
SaveContents ==
  {Fill("n", n) : n \in SaveLengths}
    \cup {Fill(" ", 25), Fill("n", 19) \o NL, <<>>}
SavePaths == {PathA, <<" ", Backtick>> \o PathA \o <<Backtick, " ">>, <<Backtick, Backtick>>}

\* a reply with one file block: the lines before the heading, the heading, the opening
\* fence, the lines of the block, and how the block ends
CodeLine2 == <<" "," ","r","e","t","u","r","n"," ","a"," ","+"," ","1",";">>
Preambles == { <<>>, << <<"F","i","x",":">>, Fence, <<"n","o","t","e">>, Fence >> }
Headings == { FileHeading \o <<" ">> \o PathA,
              <<" "," ">> \o FileHeading \o <<" ", Backtick>> \o PathA \o <<Backtick>> }
Bodies == { <<CodeLine>>,
            <<CodeLine, <<>>, CodeLine2, <<" ">> \o Fence, CodeLine, CodeLine>>,
            << <<"a"," ","=","1">> >>,
            << <<>> >>,
            <<>> }
\* what follows a closing fence
Trailer ==
  <<"T","h","i","s"," ","c","h","a","n","g","e"," ","f","i","x","e","s"," ","t","h","e"," ",
    "b","u","g",".">>
\* lines of a file's text, the first of which starts with FILE:
InsideLines == << FileHeading \o <<" ">> \o PathB, CodeLine >>
\* how the block ends: with a closing fence, with the next heading, with the end of the
\* input, or with a closing fence after lines the first of which starts with FILE:
Endings == {"fence", "heading", "eof", "inside"}

BlockInputs ==
  [pre : Preambles, heading : Headings, body : Bodies, ending : Endings]

\* the lines of the reply an input stands for
Render(in) ==
  in.pre \o <<in.heading, Fence \o <<"t","s">> >> \o in.body
    \o (IF in.ending = "fence" THEN <<Fence, <<"D","o","n","e",".">> >>
        ELSE IF in.ending = "heading" THEN << FileHeading \o <<" ">> \o PathB >>
        ELSE IF in.ending = "inside" THEN InsideLines \o <<Fence, Trailer>>
        ELSE <<>>)

InitWriter ==
  /\ todo = <<>>
  /\ StoreIdle
  /\ fs \in InitialFiles
  /\ writes = <<>>
  /\ ParserIdle
  /\ iteration = 0
  /\ consecutive_failures = 0
  /\ error = <<>>
  /\ commits = <<>>
  /\ pauses = 0
  /\ cycles = <<>>
  /\ pc = "idle"

\* save_file_changes(filepath, content)
SaveDirect ==
  /\ pc = "idle"
  /\ calls < MaxSaves
  /\ \E p \in SavePaths, c \in SaveContents :
       /\ fs' = SaveFileChanges(p, c, fs).files
       /\ writes' = writes \o SaveFileChanges(p, c, fs).written
       /\ call' = [name |-> "save_file_changes", arg |-> [filepath |-> p, content |-> c],
                   before |-> fs, result |-> SaveFileChanges(p, c, fs).ok]
  /\ calls' = calls + 1
  /\ UNCHANGED <<todo, task, marked, skips, clock, parserVars, loopVars>>

\* apply_changes(response) on the files the writer started from: the statements before
\* its loop
ParseStart ==
  /\ pc = "idle"
  /\ calls = 0
  /\ \E in \in BlockInputs :
       /\ reply' = Split(Join(Render(in), NL), NL)
       /\ call' = [name |-> "apply_changes", arg |-> in, before |-> fs,
                   mark |-> Len(writes)]
  /\ pos' = 0
  /\ current_file' = ParserStart(fs).current_file
  /\ current_content' = ParserStart(fs).current_content
  /\ in_code_block' = ParserStart(fs).in_code_block
  /\ changes_made' = ParserStart(fs).changes_made
  /\ pc' = "parsing"
  /\ UNCHANGED <<todo, task, marked, skips, calls, clock, fileVars,
                 iteration, consecutive_failures, error, commits, pauses, cycles>>

\* the locals of apply_changes as one value
ParserState ==
  [current_file |-> current_file, current_content |-> current_content,
   in_code_block |-> in_code_block, changes_made |-> changes_made,
   files |-> fs, written |-> writes]

\* the locals and the files take the values of st
ParserBecomes(st) ==
  /\ current_file' = st.current_file
  /\ current_content' = st.current_content
  /\ in_code_block' = st.in_code_block
  /\ changes_made' = st.changes_made
  /\ fs' = st.files
  /\ writes' = st.written

\* one pass of the loop of apply_changes
ParseLine ==
  /\ pc = "parsing"
  /\ pos < Len(reply)
  /\ ParserBecomes(ApplyLine(ParserState, reply[pos + 1]))
  /\ pos' = pos + 1
  /\ UNCHANGED <<storeVars, reply, pc, iteration, consecutive_failures, error, commits,
                 pauses, cycles>>

\* the flush after the loop, and the return
ParseEnd ==
  /\ pc = "parsing"
  /\ pos = Len(reply)
  /\ ParserBecomes(ApplyEnd(ParserState))
  /\ pc' = "parsed"
  /\ UNCHANGED <<storeVars, reply, pos, iteration, consecutive_failures, error, commits,
                 pauses, cycles>>

NextWriter == SaveDirect \/ ParseStart \/ ParseLine \/ ParseEnd

SpecWriter == InitWriter /\ [][NextWriter]_vars

\* the writes made since apply_changes was entered
WritesOfCall == SubSeq(writes, call.mark + 1, Len(writes))

\* C8: a reply with a FILE heading and one fenced region whose content passes the save
\* guard yields exactly one write, to that path, of the region's lines joined by
\* newlines, whether the region ends with a closing fence, the next FILE heading or the
\* end of the input.
C8_OneWrite ==
  (/\ pc = "parsed"
   /\ call.arg.ending \in {"fence", "heading", "eof"}
   /\ SaveAccepts(PathA, Join(call.arg.body, NL), call.before))
  => /\ WritesOfCall = << <<PathA, Join(call.arg.body, NL)>> >>
     /\ fs = WriteText(call.before, PathA, Join(call.arg.body, NL))
     /\ changes_made

\* a block of several lines, one of them blank, with no closing fence, was written over
\* an existing file
C8_Witness ==
  /\ pc = "parsed"
  /\ call.arg.ending = "eof"
  /\ Len(call.arg.body) > 1
  /\ PathA \in DOMAIN call.before
  /\ Len(WritesOfCall) = 1
  /\ fs[PathA] = Join(call.arg.body, NL)

\* C9: save_file_changes with content shorter than 20 characters returns false and
\* leaves every file as it was, and no write, direct or by a parser flush, has a body
\* shorter than 20 characters.
C9_NoSmallWrite ==
  /\ (call.name = "save_file_changes" /\ Len(call.arg.content) < 20)
       => (~call.result /\ fs = call.before)
  /\ \A i \in 1..Len(writes) : Len(writes[i][2]) >= 20

\* content of 19 characters was offered for an existing file and refused
C9_Witness ==
  /\ call.name = "save_file_changes"
  /\ Len(call.arg.content) = 19
  /\ call.arg.filepath = PathA
  /\ PathA \in DOMAIN call.before
  /\ ~call.result
  /\ fs = call.before

\* a direct call on an existing file with content of at least 20 characters and a path
\* that is not empty after sanitizing
SaveOnExisting ==
  /\ call.name = "save_file_changes"
  /\ SanitizePath(call.arg.filepath) = PathA
  /\ PathA \in DOMAIN call.before
  /\ Len(call.arg.content) >= 20

\* the call was refused exactly when E > 200 and 5 * N < E, and otherwise replaced the
\* file's text by the content
GuardOutcome ==
  LET E == Len(call.before[PathA])
      N == Len(call.arg.content)
  IN  IF E > 200 /\ 5 * N < E
      THEN ~call.result /\ fs = call.before
      ELSE call.result /\ fs = [call.before EXCEPT ![PathA] = call.arg.content]

\* C10 as stated: for every content of length N >= 20
C10_GuardExact == SaveOnExisting => GuardOutcome

\* C10 amended: for every content of length N >= 20 that is not all whitespace
C10_GuardExactNonBlank ==
  (SaveOnExisting /\ \E i \in 1..Len(call.arg.content) : call.arg.content[i] \notin Whitespace)
    => GuardOutcome

\* content of exactly a fifth of an existing 1000 characters was written
C10_Witness ==
  /\ SaveOnExisting
  /\ Len(call.before[PathA]) = 1000
  /\ Len(call.arg.content) = 200
  /\ call.result
  /\ fs[PathA] = call.arg.content

\* the lines between the opening fence of a block and its closing fence
Fenced(in) == IF in.ending = "inside" THEN in.body \o InsideLines ELSE in.body

\* C17: inside a fenced block under a current file every line up to the closing fence,
\* blank lines and lines that start with FILE: included, goes to the accumulator
\* unchanged, so what is flushed at the closing fence is exactly the lines between the
\* two fences.
C17_FenceVerbatim ==
  (/\ pc = "parsed"
   /\ call.arg.ending \in {"fence", "inside"}
   /\ SaveAccepts(PathA, Join(Fenced(call.arg), NL), call.before))
  => /\ Len(WritesOfCall) >= 1
     /\ WritesOfCall[1] = <<PathA, Join(Fenced(call.arg), NL)>>

\* whether the i-th line of a reply lies inside a fenced region: an odd number of fence
\* lines stand above it and it is not a fence line itself
InFence(lines, i) ==
  /\ ~IsFence(lines[i])
  /\ Cardinality({j \in 1..(i - 1) : IsFence(lines[j])}) % 2 = 1

\* C20: every write of apply_changes goes to the sanitized path of the last FILE heading
\* above the lines written, and its content is made of lines that stand inside a fenced
\* region below that heading; a fenced block above every heading and text outside the
\* fences are never written.
C20_WritesFromFences ==
  pc \in {"parsing", "parsed"} =>
    \A w \in 1..Len(WritesOfCall) :
      \E h \in 1..Len(reply) :
        /\ IsFileHeading(reply[h])
        /\ WritesOfCall[w][1] = SanitizePath(Replace(reply[h], FileHeading, <<>>))
        /\ \E a \in (h + 1)..Len(reply), b \in (h + 1)..Len(reply) :
             /\ a <= b
             /\ WritesOfCall[w][2] = Join(SubSeq(reply, a, b), NL)
             /\ \A i \in a..b : InFence(reply, i)
             /\ \A i \in (h + 1)..b : ~IsFileHeading(reply[i])
====
